---- MODULE Spec2Model ----
(***************************************************************************)
(* Session layer of the rodbus Modbus client (src/session.rs): range       *)
(* validation, the generic dispatch Session::make_service_call over the    *)
(* shared mpsc request queue and a per-call oneshot completion signal, and *)
(* CallbackSession::start_request, which runs the same dispatch in a       *)
(* spawned task and hands the outcome to a Handler.                        *)
(***************************************************************************)
EXTENDS Integers, Sequences, FiniteSets, TLC

(***************************************************************************)
(* Bounds of the model.                                                    *)
(***************************************************************************)
\* number of cloned Session handles used by sequential call paths
NSessions == 2
\* total number of calls (Session calls and start_request calls) issued
MaxCalls == 2
\* capacity of the bounded mpsc request queue
QueueCap == 1
\* half-width of the windows of sample values around each validation boundary
Window == 2

(***************************************************************************)
(* Program constants.                                                      *)
(***************************************************************************)
U16_MAX == 65535
MAX_REGISTERS == 125
MAX_BINARY_BITS == 2000
UNIT_ID_DEFAULT == 255

(***************************************************************************)
(* Result values.  A Result<T, E> is a record with a tag; the payload of   *)
(* Ok and the details of Err are two integers (index/value, start/count,   *)
(* count/max, ...).                                                        *)
(***************************************************************************)
Ok(a, b) == [tag |-> "Ok", kind |-> "", name |-> "", a |-> a, b |-> b]

Err(kind, name, a, b) == [tag |-> "Err", kind |-> kind, name |-> name, a |-> a, b |-> b]

\* no value yet (a pending future, an empty oneshot slot)
NoResult == [tag |-> "None", kind |-> "", name |-> "", a |-> 0, b |-> 0]

\* InvalidRequest variants
CountOfZero == Err("InvalidRequest", "CountOfZero", 0, 0)

AddressOverflow(start, count) == Err("InvalidRequest", "AddressOverflow", start, count)

CountTooBigForType(count, max_count) == Err("InvalidRequest", "CountTooBigForType", count, max_count)

\* ErrorKind::Shutdown, before its conversion into Error
Shutdown == Err("ErrorKind", "Shutdown", 0, 0)

\* the From conversions applied by the ? operator: InvalidRequest -> Error and
\* ErrorKind -> Error wrap the value, an Error stays as it is
IntoError(r) ==
    IF r.tag = "Err" /\ r.kind \in {"InvalidRequest", "ErrorKind"}
    THEN [r EXCEPT !.kind = "Error"]
    ELSE r

(***************************************************************************)
(* AddressRange::check_validity.  count and start are u16; the last        *)
(* address is computed in u32.                                             *)
(***************************************************************************)
\* x as u32: x mod 2^32, written by 16-bit halves
U32(x) == ((x \div 65536) % 65536) * 65536 + (x % 65536)

\* variant: the sum computed in u16, where it wraps
last_address_u16(start, count) == (start + (count - 1)) % 65536

last_address(start, count) == U32(U32(start) + U32(U32(count) - 1))

\* variant: the count ceiling is tested before the overflow
check_validity_reordered(start, count, max_count) ==
    IF count = 0 THEN CountOfZero
    ELSE IF count > max_count THEN CountTooBigForType(count, max_count)
    ELSE IF last_address(start, count) > U16_MAX THEN AddressOverflow(start, count)
    ELSE Ok(0, 0)

check_validity(start, count, max_count) ==
    IF count = 0 THEN CountOfZero
    ELSE IF last_address(start, count) > U16_MAX THEN AddressOverflow(start, count)
    ELSE IF count > max_count THEN CountTooBigForType(count, max_count)
    ELSE Ok(0, 0)

check_validity_for_bits(start, count) == check_validity(start, count, MAX_BINARY_BITS)

check_validity_for_registers(start, count) == check_validity(start, count, MAX_REGISTERS)

(***************************************************************************)
(* CoilState and its wire encoding.                                        *)
(***************************************************************************)
\* constants::ON and constants::OFF
ON == 65280

OFF == 0

\* Result<CoilState, ResponseParseError>
CoilOk(state) == [tag |-> "Ok", state |-> state, value |-> 0]

\* ResponseParseError::UnknownCoilState(value)
UnknownCoilState(value) == [tag |-> "Err", state |-> "UnknownCoilState", value |-> value]

NoCoil == [tag |-> "None", state |-> "", value |-> 0]

from_bool(value) == IF value THEN "On" ELSE "Off"

\* variant: every value that is not zero is taken for On
from_u16_nonzero_on(value) ==
    IF value = OFF THEN CoilOk("Off") ELSE CoilOk("On")

from_u16(value) ==
    IF value = ON THEN CoilOk("On")
    ELSE IF value = OFF THEN CoilOk("Off")
    ELSE UnknownCoilState(value)

\* *self as u16 under #[repr(u16)]: the discriminant of the variant
to_u16(state) == IF state = "On" THEN ON ELSE OFF

(***************************************************************************)
(* Operations and the requests the callers draw from.                      *)
(***************************************************************************)
BitReads == {"ReadCoils", "ReadDiscreteInputs"}

RegisterReads == {"ReadHoldingRegisters", "ReadInputRegisters"}

Writes == {"WriteSingleCoil", "WriteSingleRegister"}

Operations == BitReads \cup RegisterReads \cup Writes

\* AddressRange::new(start, count)
AddressRange(start, count) == [a |-> start, b |-> count]

\* Indexed::new(index, value)
Indexed(index, value) == [a |-> index, b |-> value]

\* ranges passed to the read operations: valid, zero count, overflowing,
\* and one between the two ceilings
SampleRanges ==
    {AddressRange(10, 2), AddressRange(0, 0), AddressRange(U16_MAX, 2),
     AddressRange(0, MAX_REGISTERS + 1)}

\* the requests a caller may pass to operation op
Requests(op) ==
    IF op \in Writes
    THEN IF op = "WriteSingleCoil" THEN {Indexed(3, 65280)} ELSE {Indexed(4, 7)}
    ELSE SampleRanges

\* the operations and requests of the callers that run concurrently: a read
\* and a write, a valid range and one the validity check rejects
ConcurrentOps == {"ReadHoldingRegisters", "WriteSingleCoil"}

ConcurrentRequests(op) ==
    IF op \in Writes THEN Requests(op)
    ELSE {AddressRange(10, 2), AddressRange(U16_MAX, 2)}

\* the (unit address, response timeout in ms) pairs a session is built with
SessionConfigs == {<<1, 1000>>, <<UNIT_ID_DEFAULT, 0>>}

(***************************************************************************)
(* Service trait (crate::service), one implementation per operation.       *)
(***************************************************************************)
check_request_validity(op, request) ==
    IF op \in BitReads THEN check_validity_for_bits(request.a, request.b)
    ELSE IF op \in RegisterReads THEN check_validity_for_registers(request.a, request.b)
    ELSE Ok(0, 0)

\* ServiceRequest::new(id, timeout, argument, reply_to); origin is a history
\* field naming the call that built the request
ServiceRequest(id, timeout, argument, reply_to, origin) ==
    [id |-> id, timeout |-> timeout, argument |-> argument,
     reply_to |-> reply_to, origin |-> origin]

\* S::create_request: the Request variant of the operation
create_request(op, service_request) ==
    [variant |-> op, id |-> service_request.id, timeout |-> service_request.timeout,
     argument |-> service_request.argument, reply_to |-> service_request.reply_to,
     origin |-> service_request.origin]

NoRequest ==
    [variant |-> "", id |-> 0, timeout |-> 0, argument |-> AddressRange(0, 0),
     reply_to |-> 0, origin |-> 0]

(***************************************************************************)
(* State.                                                                  *)
(***************************************************************************)
VARIABLES
    sessions,   \* the cloned Session handles: [1..NSessions -> Session]
    callback,   \* the CallbackSession: [inner |-> Session]
    calls,      \* every call issued so far, in call order
    queue,      \* the messages buffered in the mpsc request channel
    rxAlive,    \* the mpsc Receiver (the queue's consumer side) exists
    oneshots,   \* the oneshot channels created so far
    held,       \* the requests the transport worker has taken and not resolved
    fired,      \* history: the result the worker fired for each call
    probe       \* the range under test of the validation specification

vars == <<sessions, callback, calls, queue, rxAlive, oneshots, held, fired, probe>>

\* the caller field of a call issued through CallbackSession
CallbackCaller == 0

\* Session::new
SessionNew(id, response_timeout) == [id |-> id, response_timeout |-> response_timeout]

\* #[derive(Clone)] on Session: a field-wise copy sharing the queue writer
SessionClone(s) == [id |-> s.id, response_timeout |-> s.response_timeout]

\* CallbackSession::new
CallbackSessionNew(inner) == [inner |-> inner]

NoProbe == [start |-> 0, count |-> 0, max_count |-> 0, out |-> NoResult]

\* the sessions after construction: a Session over a fresh queue, its clones,
\* and a CallbackSession around one more clone; nothing has been called
InitSessions ==
    /\ \E cfg \in SessionConfigs :
         /\ sessions = [h \in 1..NSessions |-> SessionClone(SessionNew(cfg[1], cfg[2]))]
         /\ callback = CallbackSessionNew(SessionClone(SessionNew(cfg[1], cfg[2])))
    /\ calls = <<>>
    /\ queue = <<>>
    /\ rxAlive = TRUE
    /\ oneshots = <<>>
    /\ held = {}
    /\ fired = <<>>

Init ==
    /\ InitSessions
    /\ probe = NoProbe

(***************************************************************************)
(* tokio primitives as the session uses them.                              *)
(***************************************************************************)
\* variant: the last channel created is re-armed instead of a fresh one
oneshot_channel_reused == IF oneshots = <<>> THEN 1 ELSE Len(oneshots)

\* oneshot::channel(): a fresh channel; both ends are named by its index
oneshot_channel == Len(oneshots) + 1

OpenSlot == [state |-> "open", value |-> NoResult]

\* the oneshot channels after creating (or re-arming) channel ch
WithChannel(ch) ==
    IF ch > Len(oneshots) THEN Append(oneshots, OpenSlot)
    ELSE [oneshots EXCEPT ![ch] = OpenSlot]

\* oneshot Sender::send(value): delivered if nothing was sent before
OneshotSend(os, ch, value) ==
    IF os[ch].state = "open"
    THEN [os EXCEPT ![ch] = [state |-> "sent", value |-> value]]
    ELSE os

\* drop of a oneshot Sender that was not used: the channel closes
OneshotDropTx(os, ch) ==
    IF os[ch].state = "open"
    THEN [os EXCEPT ![ch] = [state |-> "closed", value |-> NoResult]]
    ELSE os

RECURSIVE DropAll(_, _)
\* drop of every request of a sequence of requests, with its oneshot Sender
DropAll(os, requests) ==
    IF requests = <<>> THEN os
    ELSE DropAll(OneshotDropTx(os, Head(requests).reply_to), Tail(requests))

\* variant: a dropped Sender is not noticed, the Receiver stays pending
OneshotPoll_unclosed(ch) ==
    IF oneshots[ch].state = "sent" THEN oneshots[ch].value ELSE NoResult

\* variant: the wait gives up with a timeout while nothing has arrived
OneshotPoll_timed(ch) ==
    IF oneshots[ch].state = "sent" THEN oneshots[ch].value
    ELSE IF oneshots[ch].state = "closed" THEN Err("RecvError", "RecvError", 0, 0)
    ELSE Err("Error", "ResponseTimeout", 0, 0)

\* polling the oneshot Receiver: Ok(value), Err(RecvError) or pending (NoResult)
OneshotPoll(ch) ==
    IF oneshots[ch].state = "sent" THEN oneshots[ch].value
    ELSE IF oneshots[ch].state = "closed" THEN Err("RecvError", "RecvError", 0, 0)
    ELSE NoResult

(***************************************************************************)
(* Session::make_service_call, cut at its two suspension points.           *)
(***************************************************************************)
\* a call record: the activation of make_service_call for one request;
\* after_teardown is a history field: the Receiver was gone when the call began
NewCall(caller, op, request, session) ==
    [caller |-> caller, op |-> op, request |-> request, self |-> session,
     pc |-> "spawned", rx |-> 0, envelope |-> NoRequest, result |-> NoResult,
     enqueued |-> 0, received |-> 0, handled |-> 0, handler_arg |-> NoResult,
     after_teardown |-> ~rxAlive]

\* variant: the handler is called a second time
Handle_twice(call, result) ==
    [call EXCEPT !.handled = @ + 2, !.handler_arg = result]

\* variant: only a success is handed to the handler
Handle_success_only(call, result) ==
    IF result.tag = "Ok"
    THEN [call EXCEPT !.handled = @ + 1, !.handler_arg = result]
    ELSE call

\* Handler::handle(result) of the callback a start_request call carries
Handle(call, result) ==
    [call EXCEPT !.handled = @ + 1, !.handler_arg = result]

\* variant: a call that got an error after its first send tries once more
Return_retry(call, result) ==
    IF result.tag = "Err" /\ call.enqueued = 1
    THEN [call EXCEPT !.pc = "sending"]
    ELSE IF call.caller = CallbackCaller
    THEN Handle([call EXCEPT !.pc = "done", !.result = result], result)
    ELSE [call EXCEPT !.pc = "done", !.result = result]

\* the call returns result: to the awaiting caller of a Session operation, or,
\* in the task start_request spawned, as the argument of callback.handle
Return(call, result) ==
    IF call.caller = CallbackCaller
    THEN Handle([call EXCEPT !.pc = "done", !.result = result], result)
    ELSE [call EXCEPT !.pc = "done", !.result = result]

\* variant: the validity check is skipped
Begin_unchecked(call, c) ==
    [call |-> [call EXCEPT
                 !.pc = "sending",
                 !.rx = oneshot_channel,
                 !.envelope = create_request(call.op,
                     ServiceRequest(call.self.id, call.self.response_timeout,
                                    call.request, oneshot_channel, c))],
     oneshots |-> WithChannel(oneshot_channel)]

\* variant: a closed queue is detected before the validity check
Begin_shutdown_first(call, c) ==
    LET valid == check_request_validity(call.op, call.request)
        tx == oneshot_channel
    IN  IF ~rxAlive
        THEN [call |-> Return(call, IntoError(Shutdown)), oneshots |-> oneshots]
        ELSE IF valid.tag = "Err"
        THEN [call |-> Return(call, IntoError(valid)), oneshots |-> oneshots]
        ELSE [call |-> [call EXCEPT
                          !.pc = "sending",
                          !.rx = tx,
                          !.envelope = create_request(call.op,
                              ServiceRequest(call.self.id, call.self.response_timeout,
                                             call.request, tx, c))],
              oneshots |-> WithChannel(tx)]

\* variant: the request is built with the default unit address
Begin_default_unit(call, c) ==
    LET valid == check_request_validity(call.op, call.request)
        tx == oneshot_channel
    IN  IF valid.tag = "Err"
        THEN [call |-> Return(call, IntoError(valid)), oneshots |-> oneshots]
        ELSE [call |-> [call EXCEPT
                          !.pc = "sending",
                          !.rx = tx,
                          !.envelope = create_request(call.op,
                              ServiceRequest(UNIT_ID_DEFAULT, call.self.response_timeout,
                                             call.request, tx, c))],
              oneshots |-> WithChannel(tx)]

\* lines 143-145 for call number c: the validity check, the oneshot channel
\* and the request; gives the call and the oneshot channels afterwards
Begin(call, c) ==
    LET valid == check_request_validity(call.op, call.request)
        tx == oneshot_channel
    IN  IF valid.tag = "Err"
        THEN [call |-> Return(call, IntoError(valid)), oneshots |-> oneshots]
        ELSE [call |-> [call EXCEPT
                          !.pc = "sending",
                          !.rx = tx,
                          !.envelope = create_request(call.op,
                              ServiceRequest(call.self.id, call.self.response_timeout,
                                             call.request, tx, c))],
              oneshots |-> WithChannel(tx)]

\* variant: a failed send is ignored and the call goes on to wait
SendFailed_ignored(call) == [call EXCEPT !.pc = "waiting"]

\* line 146, the send failed: map_err(|_| ErrorKind::Shutdown)?
SendFailed(call) == Return(call, IntoError(Shutdown))

\* variant: the call returns as soon as its request is on the queue
SendDone_no_wait(call) == Return([call EXCEPT !.enqueued = @ + 1], Ok(0, 0))

\* line 146, the send succeeded: go on to wait on rx
SendDone(call) == [call EXCEPT !.pc = "waiting", !.enqueued = @ + 1]

\* variant: every error that arrives is reported as a shutdown
AwaitResult_rewrapped(polled) ==
    IF polled.tag = "Err" THEN IntoError(Shutdown) ELSE polled

\* variant: an error that arrives is replaced by an empty success
AwaitResult_recovered(polled) ==
    IF polled.tag = "Err" THEN Ok(0, 0) ELSE polled

\* line 147: rx.await.map_err(|_| ErrorKind::Shutdown)? on a ready receiver
AwaitResult(polled) ==
    IF polled.tag = "Err" /\ polled.kind = "RecvError"
    THEN IntoError(Shutdown)
    ELSE polled

\* variant: the future is polled in the calling context instead of spawned
Spawn_inline(call, c) == Begin(call, c)

\* tokio::spawn(task): the task is handed to the runtime and has not run yet
Spawn(call, c) == [call |-> call, oneshots |-> oneshots]

\* variant: a handle starts a call while its previous call is still running
SessionCall_overlapping(h, op, request) ==
    /\ Len(calls) < MaxCalls
    /\ LET c == Len(calls) + 1
           begun == Begin(NewCall(h, op, request, sessions[h]), c)
       IN  /\ calls' = Append(calls, begun.call)
           /\ oneshots' = begun.oneshots
    /\ fired' = Append(fired, NoResult)
    /\ UNCHANGED <<sessions, callback, queue, rxAlive, held, probe>>

\* a Session operation (read_coils .. write_single_register) on handle h:
\* the handle is borrowed mutably for the whole call, so a handle runs one
\* call at a time
SessionCall(h, op, request) ==
    /\ Len(calls) < MaxCalls
    /\ \A i \in 1..Len(calls) : calls[i].caller = h => calls[i].pc = "done"
    /\ LET c == Len(calls) + 1
           begun == Begin(NewCall(h, op, request, sessions[h]), c)
       IN  /\ calls' = Append(calls, begun.call)
           /\ oneshots' = begun.oneshots
    /\ fired' = Append(fired, NoResult)
    /\ UNCHANGED <<sessions, callback, queue, rxAlive, held, probe>>

\* CallbackSession::start_request (through read_coils): clone the inner
\* session, spawn the task, return
StartRequest(op, request) ==
    /\ Len(calls) < MaxCalls
    /\ LET c == Len(calls) + 1
           session == SessionClone(callback.inner)
           spawned == Spawn(NewCall(CallbackCaller, op, request, session), c)
       IN  /\ calls' = Append(calls, spawned.call)
           /\ oneshots' = spawned.oneshots
    /\ fired' = Append(fired, NoResult)
    /\ UNCHANGED <<sessions, callback, queue, rxAlive, held, probe>>

\* the spawned task starts running make_service_call
TaskBegin(c) ==
    /\ c \in 1..Len(calls)
    /\ calls[c].pc = "spawned"
    /\ LET begun == Begin(calls[c], c)
       IN  /\ calls' = [calls EXCEPT ![c] = begun.call]
           /\ oneshots' = begun.oneshots
    /\ UNCHANGED <<sessions, callback, queue, rxAlive, held, fired, probe>>

\* self.request_channel.send(request).await
Send(c) ==
    /\ c \in 1..Len(calls)
    /\ calls[c].pc = "sending"
    /\ IF ~rxAlive
       THEN /\ calls' = [calls EXCEPT ![c] = SendFailed(calls[c])]
            /\ oneshots' = OneshotDropTx(oneshots, calls[c].envelope.reply_to)
            /\ UNCHANGED queue
       ELSE /\ Len(queue) < QueueCap
            /\ queue' = Append(queue, calls[c].envelope)
            /\ calls' = [calls EXCEPT ![c] = SendDone(calls[c])]
            /\ UNCHANGED oneshots
    /\ UNCHANGED <<sessions, callback, rxAlive, held, fired, probe>>

\* variant: a call takes its result only after all earlier calls returned
Await_in_order(c) ==
    /\ c \in 1..Len(calls)
    /\ calls[c].pc = "waiting"
    /\ \A i \in 1..(c - 1) : calls[i].pc = "done"
    /\ OneshotPoll(calls[c].rx) # NoResult
    /\ calls' = [calls EXCEPT ![c] =
            Return([calls[c] EXCEPT !.received = @ + 1], AwaitResult(OneshotPoll(calls[c].rx)))]
    /\ UNCHANGED <<sessions, callback, queue, rxAlive, oneshots, held, fired, probe>>

\* rx.await
Await(c) ==
    /\ c \in 1..Len(calls)
    /\ calls[c].pc = "waiting"
    /\ OneshotPoll(calls[c].rx) # NoResult
    /\ calls' = [calls EXCEPT ![c] =
            Return([calls[c] EXCEPT !.received = @ + 1], AwaitResult(OneshotPoll(calls[c].rx)))]
    /\ UNCHANGED <<sessions, callback, queue, rxAlive, oneshots, held, fired, probe>>

(***************************************************************************)
(* The transport worker, the consumer of the queue.                        *)
(***************************************************************************)
\* what the worker may answer to a request
Replies(request) ==
    {Ok(request.argument.a, request.argument.b),
     Err("Error", "ResponseTimeout", 0, 0)}

\* what the device may echo to a write request: the value sent, another
\* index, another value, and a value that is no coil state
Echoes(request) ==
    {request.argument,
     Indexed(request.argument.a + 1, request.argument.b),
     Indexed(request.argument.a, OFF),
     Indexed(request.argument.a, 1)}

\* the worker's answer to a write request whose echo it has read: the echo
\* must decode and must equal what was sent
WriteReply(request, echo) ==
    IF request.variant = "WriteSingleCoil" /\ from_u16(echo.b).tag = "Err"
    THEN Err("Error", "UnknownCoilState", echo.b, 0)
    ELSE IF echo # request.argument
    THEN Err("Error", "ReplyEchoMismatch", 0, 0)
    ELSE Ok(echo.a, echo.b)

WorkerRecv ==
    /\ rxAlive
    /\ queue # <<>>
    /\ held' = held \cup {Head(queue)}
    /\ queue' = Tail(queue)
    /\ UNCHANGED <<sessions, callback, calls, rxAlive, oneshots, fired, probe>>

WorkerReply(request, reply) ==
    /\ request \in held
    /\ oneshots' = OneshotSend(oneshots, request.reply_to, reply)
    /\ held' = held \ {request}
    /\ fired' = [fired EXCEPT ![request.origin] = reply]
    /\ UNCHANGED <<sessions, callback, calls, queue, rxAlive, probe>>

WorkerAbandon(request) ==
    /\ request \in held
    /\ oneshots' = OneshotDropTx(oneshots, request.reply_to)
    /\ held' = held \ {request}
    /\ UNCHANGED <<sessions, callback, calls, queue, rxAlive, fired, probe>>

\* the Receiver is dropped: the channel closes and its buffered requests are
\* dropped with their oneshot Senders
Teardown ==
    /\ rxAlive
    /\ rxAlive' = FALSE
    /\ queue' = <<>>
    /\ oneshots' = DropAll(oneshots, queue)
    /\ UNCHANGED <<sessions, callback, calls, held, fired, probe>>

\* several cloned handles and the callback session, used concurrently
Next ==
    \/ \E h \in 1..NSessions, op \in ConcurrentOps : \E request \in ConcurrentRequests(op) :
          SessionCall(h, op, request)
    \/ \E request \in ConcurrentRequests("ReadCoils") : StartRequest("ReadCoils", request)
    \/ \E c \in 1..Len(calls) : TaskBegin(c)
    \/ \E c \in 1..Len(calls) : Send(c)
    \/ \E c \in 1..Len(calls) : Await(c)
    \/ WorkerRecv
    \/ \E request \in held : \E reply \in Replies(request) : WorkerReply(request, reply)
    \/ \E request \in held : WorkerAbandon(request)
    \/ Teardown

Spec == Init /\ [][Next]_vars

\* one call path issuing every Session operation sequentially on one handle,
\* next to a clone that keeps the queue busy with writes
NextOps ==
    \/ \E op \in Operations : \E request \in Requests(op) : SessionCall(1, op, request)
    \/ \E request \in Requests("WriteSingleRegister") :
          SessionCall(NSessions, "WriteSingleRegister", request)
    \/ \E c \in 1..Len(calls) : Send(c)
    \/ \E c \in 1..Len(calls) : Await(c)
    \/ WorkerRecv
    \/ \E request \in held : \E reply \in Replies(request) : WorkerReply(request, reply)
    \/ \E request \in held : \E echo \in Echoes(request) :
          request.variant \in Writes /\ WorkerReply(request, WriteReply(request, echo))
    \/ \E request \in held : WorkerAbandon(request)
    \/ Teardown

SpecOps == Init /\ [][NextOps]_vars

\* the runtime polls every task that can make progress: a spawned task is
\* run, a sender is woken when a slot frees or the channel closes, a receiver
\* is woken when its oneshot fires or closes
Fairness ==
    \A c \in 1..MaxCalls :
        WF_vars(TaskBegin(c)) /\ WF_vars(Send(c)) /\ WF_vars(Await(c))

\* the callers of the fair specification: every handle writes a register, the
\* callback session reads coils, all with requests the validity check accepts
NextLive ==
    \/ \E h \in 1..NSessions : \E request \in Requests("WriteSingleRegister") :
          SessionCall(h, "WriteSingleRegister", request)
    \/ StartRequest("ReadCoils", AddressRange(10, 2))
    \/ \E c \in 1..Len(calls) : TaskBegin(c)
    \/ \E c \in 1..Len(calls) : Send(c)
    \/ \E c \in 1..Len(calls) : Await(c)
    \/ WorkerRecv
    \/ \E request \in held : \E reply \in Replies(request) : WorkerReply(request, reply)
    \/ \E request \in held : WorkerAbandon(request)
    \/ Teardown

\* the fair specification starts from sessions with the default unit address
InitLive == Init /\ callback.inner.id = UNIT_ID_DEFAULT

SpecLive == InitLive /\ [][NextLive]_vars /\ Fairness

\* the worker resolves the request of call c: it fires or drops its signal
WorkerResolve(c) ==
    \E request \in held :
        /\ request.origin = c
        /\ \/ \E reply \in Replies(request) : WorkerReply(request, reply)
           \/ WorkerAbandon(request)

\* a worker that keeps consuming the queue and resolves, one way or the other,
\* every request it has taken
WorkerFairness ==
    /\ WF_vars(WorkerRecv)
    /\ \A c \in 1..MaxCalls : WF_vars(WorkerResolve(c))

\* callers against a worker that is never torn down: every handle writes a
\* register, the callback session reads coils with a valid and an invalid range
NextResponsive ==
    \/ \E h \in 1..NSessions : \E request \in Requests("WriteSingleRegister") :
          SessionCall(h, "WriteSingleRegister", request)
    \/ \E request \in ConcurrentRequests("ReadCoils") : StartRequest("ReadCoils", request)
    \/ \E c \in 1..Len(calls) : TaskBegin(c)
    \/ \E c \in 1..Len(calls) : Send(c)
    \/ \E c \in 1..Len(calls) : Await(c)
    \/ WorkerRecv
    \/ \E c \in 1..Len(calls) : WorkerResolve(c)

SpecResponsive == InitLive /\ [][NextResponsive]_vars /\ Fairness /\ WorkerFairness

(***************************************************************************)
(* The validation functions on their own: a range drawn from windows of    *)
(* values around every boundary of the check, then one of the two public   *)
(* checks applied to it.                                                   *)
(***************************************************************************)
Around(x) == {v \in (x - Window)..(x + Window) : v >= 0 /\ v <= U16_MAX}

SampleStarts ==
    Around(0) \cup Around(U16_MAX + 1 - MAX_BINARY_BITS)
              \cup Around(U16_MAX + 1 - MAX_REGISTERS) \cup Around(U16_MAX)
              \cup {65500}

SampleCounts ==
    Around(0) \cup Around(MAX_REGISTERS) \cup Around(MAX_BINARY_BITS) \cup Around(U16_MAX)
              \cup {100}

InitValidity ==
    /\ InitSessions
    /\ \E start \in SampleStarts, count \in SampleCounts :
         probe = [start |-> start, count |-> count, max_count |-> 0, out |-> NoResult]

\* AddressRange::new(start, count).check_validity_for_bits()
CheckValidityForBits ==
    /\ probe.out = NoResult
    /\ probe' = [probe EXCEPT !.max_count = MAX_BINARY_BITS,
                              !.out = check_validity_for_bits(probe.start, probe.count)]
    /\ UNCHANGED <<sessions, callback, calls, queue, rxAlive, oneshots, held, fired>>

\* AddressRange::new(start, count).check_validity_for_registers()
CheckValidityForRegisters ==
    /\ probe.out = NoResult
    /\ probe' = [probe EXCEPT !.max_count = MAX_REGISTERS,
                              !.out = check_validity_for_registers(probe.start, probe.count)]
    /\ UNCHANGED <<sessions, callback, calls, queue, rxAlive, oneshots, held, fired>>

NextValidity == CheckValidityForBits \/ CheckValidityForRegisters

SpecValidity == InitValidity /\ [][NextValidity]_vars

(***************************************************************************)
(* The CoilState codec on its own: a bool and a wire value drawn from       *)
(* windows around the two patterns and their look-alikes.                  *)
(***************************************************************************)
SampleWire ==
    Around(OFF) \cup Around(ON) \cup Around(255) \cup Around(U16_MAX)

InitCoil ==
    /\ InitSessions
    /\ \E flag \in BOOLEAN, wire \in SampleWire :
         probe = [flag |-> flag, wire |-> wire, state |-> "", encoded |-> -1,
                  round |-> NoCoil, decoded |-> NoCoil]

\* CoilState::from_bool(flag), its to_u16(), and from_u16 of that
EncodeBool ==
    /\ probe.state = ""
    /\ probe' = [probe EXCEPT !.state = from_bool(probe.flag),
                              !.encoded = to_u16(from_bool(probe.flag)),
                              !.round = from_u16(to_u16(from_bool(probe.flag)))]
    /\ UNCHANGED <<sessions, callback, calls, queue, rxAlive, oneshots, held, fired>>

\* CoilState::from_u16(wire)
DecodeWire ==
    /\ probe.decoded = NoCoil
    /\ probe' = [probe EXCEPT !.decoded = from_u16(probe.wire)]
    /\ UNCHANGED <<sessions, callback, calls, queue, rxAlive, oneshots, held, fired>>

NextCoil == EncodeBool \/ DecodeWire

SpecCoil == InitCoil /\ [][NextCoil]_vars

(***************************************************************************)
(* Properties.                                                             *)
(***************************************************************************)
CallIds == 1..Len(calls)

\* the requests of call c that are in the queue or with the worker
InFlight(c) ==
    {i \in 1..Len(queue) : queue[i].origin = c} \cup {r \in held : r.origin = c}

\* C10: check_validity succeeds exactly when count >= 1, start + count - 1
\* does not pass 65535 (computed without wrapping) and count <= max_count,
\* for max_count 125 (registers) and 2000 (bits)
C10_ValidityExact ==
    probe.out # NoResult =>
        /\ probe.max_count \in {MAX_REGISTERS, MAX_BINARY_BITS}
        /\ (probe.out.tag = "Ok") <=>
              (/\ probe.count >= 1
               /\ probe.start + probe.count - 1 <= 65535
               /\ probe.count <= probe.max_count)

\* a register range of the largest count ending exactly at the last address
\* has been accepted
C10_Witness ==
    /\ probe.out.tag = "Ok"
    /\ probe.max_count = MAX_REGISTERS
    /\ probe.count = MAX_REGISTERS
    /\ probe.start + probe.count - 1 = U16_MAX

\* the validity check of call c's operation rejects its request
Rejected(c) == check_request_validity(calls[c].op, calls[c].request).tag = "Err"

ValidationErrors == {"CountOfZero", "AddressOverflow", "CountTooBigForType"}

\* C1: a Session operation whose validity check rejects the request returns
\* that validation error; no completion signal is created for it and no
\* envelope of it is ever enqueued or handed to the worker
C1_RejectedNeverReachesQueue ==
    /\ \A c \in CallIds :
         (calls[c].caller # CallbackCaller /\ Rejected(c)) =>
            /\ calls[c].pc = "done"
            /\ calls[c].result.tag = "Err"
            /\ calls[c].result.kind = "Error"
            /\ calls[c].result.name \in ValidationErrors
            /\ calls[c].result = IntoError(check_request_validity(calls[c].op, calls[c].request))
            /\ calls[c].rx = 0
            /\ calls[c].envelope = NoRequest
            /\ calls[c].enqueued = 0
            /\ InFlight(c) = {}
    /\ Len(oneshots) = Cardinality({c \in CallIds : calls[c].rx # 0})

\* a bit read rejected for overflowing the address space while another
\* handle's request sits in the queue
C1_Witness ==
    \E c \in CallIds :
        /\ c = Len(calls)
        /\ calls[c].op \in BitReads
        /\ calls[c].result.name = "AddressOverflow"
        /\ calls[c].pc = "done"
        /\ Len(queue) = 1
        /\ queue[1].origin # c

\* C2 as stated: every call begun after the consumer was torn down ends with
\* the shutdown error
C2_AfterTeardownAlwaysShutdown ==
    \A c \in CallIds :
        (calls[c].after_teardown /\ calls[c].pc = "done") =>
            calls[c].result = IntoError(Shutdown)

\* C2 amended: a call begun after the consumer was torn down whose request
\* passes the validity check fails with the shutdown error, enqueues nothing
\* and is never suspended: it never waits on a completion signal and its
\* next step can always be taken
C2_ValidAfterTeardownShutdown ==
    \A c \in CallIds :
        (calls[c].after_teardown /\ ~Rejected(c)) =>
            /\ calls[c].pc \in {"spawned", "sending", "done"}
            /\ calls[c].pc = "spawned" => ENABLED TaskBegin(c)
            /\ calls[c].pc = "sending" => ENABLED Send(c)
            /\ calls[c].pc = "done" => calls[c].result = IntoError(Shutdown)
            /\ calls[c].enqueued = 0
            /\ InFlight(c) = {}

\* a read and a write, both begun after the teardown, have failed with the
\* shutdown error
C2_Witness ==
    \E c1, c2 \in CallIds :
        /\ calls[c1].after_teardown /\ calls[c2].after_teardown
        /\ calls[c1].op \in RegisterReads /\ calls[c2].op \in Writes
        /\ calls[c1].result = IntoError(Shutdown)
        /\ calls[c2].result = IntoError(Shutdown)

\* call c was pending when the consumer was torn down and its completion
\* signal can no longer fire: it is still suspended in the send, or it waits
\* on a signal whose Sender was dropped
PendingAtTeardown(c) ==
    /\ c \in CallIds
    /\ ~rxAlive
    /\ ~calls[c].after_teardown
    /\ \/ calls[c].pc = "sending"
       \/ calls[c].pc = "waiting" /\ oneshots[calls[c].rx].state = "closed"

\* C3: a call that was pending when the consumer was torn down, and whose
\* completion signal is dropped without firing, eventually returns the
\* shutdown error
C3_PendingEventuallyShutdown ==
    \A c \in 1..MaxCalls :
        PendingAtTeardown(c) ~>
            (c \in CallIds /\ calls[c].pc = "done" /\ calls[c].result = IntoError(Shutdown))

\* two calls begun before the teardown have returned the shutdown error: one
\* had enqueued its request, the other was still in the send
C3_Witness ==
    \E c1, c2 \in CallIds :
        /\ ~rxAlive
        /\ ~calls[c1].after_teardown /\ ~calls[c2].after_teardown
        /\ calls[c1].enqueued = 1 /\ calls[c2].enqueued = 0
        /\ calls[c1].result = IntoError(Shutdown)
        /\ calls[c2].result = IntoError(Shutdown)

\* C4: when the worker has fired a call's completion signal with a result,
\* the call returns exactly that result, success or error, unchanged
C4_WorkerResultUnmodified ==
    \A c \in CallIds :
        (fired[c] # NoResult /\ calls[c].pc = "done") =>
            /\ calls[c].result = fired[c]
            /\ calls[c].received = 1

\* one call has returned the worker's success payload and another the
\* worker's error
C4_Witness ==
    \E c1, c2 \in CallIds :
        /\ calls[c1].pc = "done" /\ calls[c2].pc = "done"
        /\ fired[c1].tag = "Ok" /\ calls[c1].result = fired[c1]
        /\ fired[c2].tag = "Err" /\ calls[c2].result = fired[c2]

\* C5: a call enqueues at most one envelope, also after a shutdown or a
\* worker error, and its completion signal delivers at most one result
C5_AtMostOneTransaction ==
    \A c \in CallIds :
        /\ calls[c].enqueued <= 1
        /\ calls[c].received <= 1
        /\ calls[c].received <= calls[c].enqueued
        /\ Cardinality(InFlight(c)) <= calls[c].enqueued
        /\ calls[c].pc = "done" => InFlight(c) = {}

\* a call has ended with the worker's error and another with the shutdown
\* error after its request was dropped; each enqueued exactly once and its
\* wait on the signal resolved exactly once
C5_Witness ==
    \E c1, c2 \in CallIds :
        /\ calls[c1].pc = "done" /\ calls[c1].enqueued = 1 /\ calls[c1].received = 1
        /\ calls[c1].result.tag = "Err"
        /\ calls[c2].pc = "done" /\ calls[c2].enqueued = 1 /\ calls[c2].received = 1
        /\ calls[c2].result = IntoError(Shutdown)

\* C6: concurrent calls from cloned handles never share a completion signal:
\* every request carries the signal of the call that built it, no two calls
\* hold the same signal, and a call that received a result received the one
\* the worker fired for its own request
C6_NoCrossTalk ==
    /\ \A c1, c2 \in CallIds :
         (c1 # c2 /\ calls[c1].rx # 0) => calls[c1].rx # calls[c2].rx
    /\ \A i \in 1..Len(queue) : queue[i].reply_to = calls[queue[i].origin].rx
    /\ \A r \in held : r.reply_to = calls[r.origin].rx
    /\ \A c \in CallIds :
         (calls[c].pc = "done" /\ calls[c].result # IntoError(Shutdown) /\ ~Rejected(c)) =>
            (fired[c] # NoResult /\ calls[c].result = fired[c])

\* two calls on different handles were answered differently by the worker,
\* out of call order: the later one has its own result while the earlier one
\* still waits on its open signal
C6_Witness ==
    \E c1, c2 \in CallIds :
        /\ c1 < c2
        /\ calls[c1].caller # calls[c2].caller
        /\ calls[c1].caller # CallbackCaller /\ calls[c2].caller # CallbackCaller
        /\ calls[c1].pc = "waiting" /\ oneshots[calls[c1].rx].state = "sent"
        /\ calls[c2].pc = "done" /\ calls[c2].result = fired[c2]
        /\ fired[c1] # fired[c2]

CallbackCalls == {c \in CallIds : calls[c].caller = CallbackCaller}

\* C7: the handler of a start_request call is invoked exactly once, with the
\* outcome of the dispatch: not before the dispatch has an outcome, once when
\* it has, never again, whatever the outcome is
C7_HandlerExactlyOnce ==
    /\ \A c \in CallbackCalls :
         /\ calls[c].handled <= 1
         /\ calls[c].pc = "done" <=> calls[c].handled = 1
         /\ calls[c].pc = "done" <=> calls[c].result # NoResult
         /\ calls[c].handled = 1 => calls[c].handler_arg = calls[c].result
         /\ calls[c].handled = 0 => calls[c].handler_arg = NoResult
    /\ \A c \in CallIds \ CallbackCalls : calls[c].handled = 0

\* two handlers have each run once: one with the worker's success, one with
\* the worker's error
C7_Witness ==
    \E c1, c2 \in CallbackCalls :
        /\ calls[c1].handled = 1 /\ calls[c1].handler_arg.tag = "Ok"
        /\ calls[c1].handler_arg = fired[c1]
        /\ calls[c2].handled = 1 /\ calls[c2].handler_arg.tag = "Err"
        /\ calls[c2].handler_arg = fired[c2]

\* what start_request leaves behind when it returns: the new call is a task
\* that has not run, and the queue, the oneshot channels and the worker are
\* untouched
StartRequestReturned ==
    \A c \in 1..Len(calls') :
        (c > Len(calls) /\ calls'[c].caller = CallbackCaller) =>
            /\ calls'[c].pc = "spawned"
            /\ calls'[c].result = NoResult
            /\ calls'[c].handled = 0
            /\ UNCHANGED <<queue, oneshots, rxAlive, held>>

\* C8: start_request can return in every state (queue full, worker silent,
\* consumer gone), and when it returns nothing of the dispatch has run in
\* the calling context: validation, enqueue and wait are left to the task
C8_StartRequestNeverSuspends ==
    /\ [](Len(calls) < MaxCalls => ENABLED StartRequest("ReadCoils", AddressRange(10, 2)))
    /\ [][StartRequestReturned]_vars

\* start_request has returned for a second call while the queue is full and
\* the first call waits on a signal the worker has not resolved
C8_Witness ==
    \E c1, c2 \in CallbackCalls :
        /\ c1 < c2
        /\ Len(queue) = QueueCap
        /\ calls[c1].pc = "waiting" /\ oneshots[calls[c1].rx].state = "open"
        /\ calls[c2].pc = "spawned"

\* C9: in the callback variant every error outcome reaches the handler: the
\* validation error found before any queue interaction, the shutdown error
\* of a failed enqueue or a dropped signal, and the worker's errors
C9_ErrorsReachHandler ==
    \A c \in CallbackCalls :
        /\ (calls[c].pc = "done" /\ calls[c].result.tag = "Err") =>
              (calls[c].handled = 1 /\ calls[c].handler_arg = calls[c].result)
        /\ (calls[c].pc # "spawned" /\ Rejected(c)) =>
              (/\ calls[c].handled = 1
               /\ calls[c].handler_arg.name \in ValidationErrors
               /\ calls[c].enqueued = 0)
        /\ (calls[c].pc = "done" /\ calls[c].after_teardown /\ ~Rejected(c)) =>
              (calls[c].handled = 1 /\ calls[c].handler_arg = IntoError(Shutdown))

\* one handler got the validation error of a call that never touched the
\* queue, another the shutdown error of a send that failed
C9_Witness ==
    \E c1, c2 \in CallbackCalls :
        /\ calls[c1].handler_arg.name = "AddressOverflow" /\ calls[c1].rx = 0
        /\ calls[c2].handler_arg = IntoError(Shutdown) /\ calls[c2].enqueued = 0

\* C11: check_validity classifies a failure in a fixed order and carries the
\* offending values: a zero count first, for every start; then an overflow of
\* the address space, with (start, count), also when the count exceeds the
\* ceiling; then a count above the ceiling, with (count, max_count)
C11_FailureOrder ==
    probe.out # NoResult =>
        /\ probe.count = 0 =>
              probe.out = [tag |-> "Err", kind |-> "InvalidRequest",
                           name |-> "CountOfZero", a |-> 0, b |-> 0]
        /\ (probe.count > 0 /\ probe.start + probe.count - 1 > 65535) =>
              probe.out = [tag |-> "Err", kind |-> "InvalidRequest",
                           name |-> "AddressOverflow",
                           a |-> probe.start, b |-> probe.count]
        /\ (probe.count > 0 /\ probe.start + probe.count - 1 <= 65535
                /\ probe.count > probe.max_count) =>
              probe.out = [tag |-> "Err", kind |-> "InvalidRequest",
                           name |-> "CountTooBigForType",
                           a |-> probe.count, b |-> probe.max_count]
        /\ (probe.start = 65500 /\ probe.count = 100) =>
              (probe.out.name = "AddressOverflow" /\ probe.out.a = 65500 /\ probe.out.b = 100)
        /\ (probe.start = 0 /\ probe.count = 126 /\ probe.max_count = 125) =>
              (probe.out.name = "CountTooBigForType" /\ probe.out.a = 126 /\ probe.out.b = 125)

\* a register range that both overflows and exceeds the ceiling has been
\* classified as an overflow
C11_Witness ==
    /\ probe.out.name = "AddressOverflow"
    /\ probe.max_count = MAX_REGISTERS
    /\ probe.count > MAX_REGISTERS
    /\ probe.start + probe.count - 1 > U16_MAX

\* C12: from_bool(true).to_u16() is 0xFF00 and from_bool(false).to_u16() is
\* 0x0000; from_u16(s.to_u16()) is s for both states; from_u16 of any other
\* 16-bit value fails with the unrecognized-state error carrying the value
C12_CoilRoundTrip ==
    /\ probe.state # "" =>
          /\ probe.state = (IF probe.flag THEN "On" ELSE "Off")
          /\ probe.encoded = (IF probe.flag THEN 65280 ELSE 0)
          /\ probe.round.tag = "Ok"
          /\ probe.round.state = probe.state
    /\ probe.decoded # NoCoil =>
          /\ probe.wire = 65280 => (probe.decoded.tag = "Ok" /\ probe.decoded.state = "On")
          /\ probe.wire = 0 => (probe.decoded.tag = "Ok" /\ probe.decoded.state = "Off")
          /\ probe.wire \notin {0, 65280} =>
                /\ probe.decoded.tag = "Err"
                /\ probe.decoded.state = "UnknownCoilState"
                /\ probe.decoded.value = probe.wire

\* true has gone through the round trip and the look-alike 0xFF01 has been
\* refused
C12_Witness ==
    /\ probe.flag /\ probe.encoded = ON /\ probe.round = CoilOk("On")
    /\ probe.wire = ON + 1 /\ probe.decoded = UnknownCoilState(ON + 1)

WriteCalls == {c \in CallIds : calls[c].op \in Writes}

\* C13: a write_single_coil / write_single_register call that returns success
\* returns the indexed value that was sent; an echo that differs or does not
\* decode comes back as the worker's error, never as a value
C13_WriteEchoesRequest ==
    \A c \in WriteCalls :
        calls[c].pc = "done" =>
            /\ calls[c].result.tag = "Ok" =>
                  /\ calls[c].result.a = calls[c].request.a
                  /\ calls[c].result.b = calls[c].request.b
                  /\ fired[c] = calls[c].result
            /\ (fired[c].tag = "Err") =>
                  (calls[c].result = fired[c] /\ calls[c].result.tag = "Err")

\* a coil write has returned the value sent, and a later write on the same
\* handle has returned the error of an echo that is no coil state
C13_Witness ==
    \E c1, c2 \in WriteCalls :
        /\ calls[c1].op = "WriteSingleCoil" /\ calls[c1].pc = "done"
        /\ calls[c1].result = Ok(calls[c1].request.a, calls[c1].request.b)
        /\ calls[c2].op = "WriteSingleCoil" /\ calls[c2].pc = "done"
        /\ calls[c2].result.name = "UnknownCoilState"

\* C14: against a worker that keeps consuming the queue and fires or drops
\* the signal of every request it takes, under fair scheduling every call
\* eventually returns: a validation error, a shutdown error or the worker's
\* result
C14_EveryCallReturns ==
    \A c \in 1..MaxCalls :
        (c \in CallIds) ~>
            (/\ c \in CallIds
             /\ calls[c].pc = "done"
             /\ \/ calls[c].result.name \in ValidationErrors
                \/ calls[c].result = IntoError(Shutdown)
                \/ calls[c].result = fired[c])

\* a call whose signal the worker dropped has returned the shutdown error and
\* a later call has returned the result the worker fired
C14_Witness ==
    \E c1, c2 \in CallIds :
        /\ c1 < c2
        /\ calls[c1].pc = "done" /\ calls[c1].result = IntoError(Shutdown)
        /\ calls[c2].pc = "done" /\ calls[c2].result = fired[c2]
        /\ fired[c2] # NoResult

\* C15: the session runs no timer: while the consumer is alive and the signal
\* of a waiting call is neither fired nor dropped, no step of the call can be
\* taken, whatever its timeout is; and a call that ends with a timeout got it
\* from the worker
C15_NoSessionTimer ==
    \A c \in CallIds :
        /\ (calls[c].pc = "waiting" /\ rxAlive /\ oneshots[calls[c].rx].state = "open") =>
              /\ ~ENABLED Await(c)
              /\ ~ENABLED Send(c)
              /\ ~ENABLED TaskBegin(c)
              /\ calls[c].result = NoResult
        /\ (calls[c].pc = "done" /\ calls[c].result.name = "ResponseTimeout") =>
              calls[c].result = fired[c]

\* a call with a timeout of zero waits while the worker holds its request
C15_Witness ==
    \E c \in CallIds :
        /\ calls[c].pc = "waiting"
        /\ rxAlive
        /\ calls[c].envelope.timeout = 0
        /\ calls[c].envelope \in held
        /\ oneshots[calls[c].rx].state = "open"

\* the handle a call was issued on: a Session handle, or the inner session of
\* the CallbackSession
HandleOf(caller) == IF caller = CallbackCaller THEN callback.inner ELSE sessions[caller]

\* the requests on the queue or taken by the worker and not yet answered
Outstanding == {queue[i] : i \in 1..Len(queue)} \cup held

\* C16: every request on the queue, and every request the worker took from
\* it, carries the unit address and the timeout of the handle it was issued
\* on and the payload and operation the caller passed; all handles, the one
\* inside the CallbackSession included, have one configuration, and a handle
\* still has the configuration it had when each of its calls was issued
C16_EnvelopeCarriesHandleConfig ==
    /\ \A h \in 1..NSessions : sessions[h] = callback.inner
    /\ \A c \in CallIds : calls[c].self = HandleOf(calls[c].caller)
    /\ \A e \in Outstanding :
          /\ e.origin \in CallIds
          /\ e.id = HandleOf(calls[e.origin].caller).id
          /\ e.timeout = HandleOf(calls[e.origin].caller).response_timeout
          /\ e.argument = calls[e.origin].request
          /\ e.variant = calls[e.origin].op

\* a request of a start_request call is with the worker and a request of a
\* Session call with another payload is on the queue, both with unit address
\* 1 and timeout 1000
C16_Witness ==
    \E e1 \in held : \E i \in 1..Len(queue) :
        /\ calls[e1.origin].caller = CallbackCaller
        /\ calls[queue[i].origin].caller \in 1..NSessions
        /\ e1.argument # queue[i].argument
        /\ e1.id = 1 /\ queue[i].id = 1
        /\ e1.timeout = 1000 /\ queue[i].timeout = 1000

\* the call has not sent its request yet and may still do so
PendingEnqueue(c) == calls[c].pc \in {"spawned", "sending"}

\* C17: calls issued one after the other on one Session handle reach the
\* queue in call order: a later call never has its request on the queue
\* while an earlier call of the same handle has yet to send its own; a later
\* call overtakes an earlier one only across different handles or among
\* the tasks start_request spawned
C17_SequentialCallsArriveInOrder ==
    \A c1, c2 \in CallIds :
        (c1 < c2 /\ calls[c2].enqueued = 1 /\ PendingEnqueue(c1)) =>
            \/ calls[c1].caller # calls[c2].caller
            \/ calls[c1].caller = CallbackCaller

\* on two cloned handles the later call arrived first: its request is
\* already with the worker while the request of the earlier call has just
\* been put on the queue behind it
C17_Witness ==
    \E e2 \in held : \E i \in 1..Len(queue) :
        /\ queue[i].origin < e2.origin
        /\ calls[queue[i].origin].caller \in 1..NSessions
        /\ calls[e2.origin].caller \in 1..NSessions
        /\ calls[queue[i].origin].caller # calls[e2.origin].caller

\* C18: the calls of one CallbackSession are independent transactions, each
\* with its own signal, and a call completes by its own signal alone: once
\* the worker has fired or dropped the signal the task can invoke the
\* handler whatever the other calls are doing, before that it cannot, and a
\* handler invoked for a request that was enqueued got its signal resolved
C18_CompletionByOwnSignal ==
    /\ \A c1, c2 \in CallbackCalls :
          (c1 # c2 /\ calls[c1].rx # 0 /\ calls[c2].rx # 0) => calls[c1].rx # calls[c2].rx
    /\ \A c \in CallbackCalls :
          /\ calls[c].pc = "waiting" =>
                (ENABLED Await(c) <=> oneshots[calls[c].rx].state # "open")
          /\ (calls[c].handled = 1 /\ calls[c].enqueued = 1) =>
                /\ oneshots[calls[c].rx].state # "open"
                /\ calls[c].handler_arg = AwaitResult(OneshotPoll(calls[c].rx))

\* the handler of the later of two start_request calls has been invoked with
\* the worker's result while the worker still holds the request of the
\* earlier call, whose handler has not been invoked
C18_Witness ==
    \E c1, c2 \in CallbackCalls :
        /\ c1 < c2
        /\ calls[c2].handled = 1
        /\ calls[c2].handler_arg = fired[c2]
        /\ fired[c2] # NoResult
        /\ calls[c1].handled = 0
        /\ calls[c1].pc = "waiting"
        /\ calls[c1].envelope \in held

\* C19: a call whose request fails the validity check returns that
\* validation error, also when it was issued, or its task ran, after the
\* consumer of the queue was torn down; a call that returned the shutdown
\* error had a request that passed the check
C19_ValidationBeforeShutdown ==
    \A c \in CallIds :
        calls[c].pc = "done" =>
            /\ Rejected(c) =>
                  calls[c].result =
                      IntoError(check_request_validity(calls[c].op, calls[c].request))
            /\ calls[c].result = IntoError(Shutdown) => ~Rejected(c)

\* after the teardown a Session call and a start_request call with rejected
\* requests have both ended with the validation error
C19_Witness ==
    \E c1, c2 \in CallIds :
        /\ ~rxAlive
        /\ calls[c1].caller \in 1..NSessions
        /\ calls[c2].caller = CallbackCaller
        /\ \A c \in {c1, c2} :
              /\ calls[c].after_teardown
              /\ Rejected(c)
              /\ calls[c].pc = "done"
              /\ calls[c].result.name \in ValidationErrors

\* the outstanding requests of the calls issued on Session handle h
OutstandingOf(h) == {e \in Outstanding : calls[e.origin].caller = h}

\* C20: a Session handle has at most one request on the queue or with the
\* worker: when a later call of the handle has enqueued its request, the
\* earlier call has returned and, if it had enqueued one, its completion
\* signal was fired or dropped; two requests are outstanding together only
\* for different handles or for the tasks of start_request
C20_OneOutstandingPerHandle ==
    /\ \A h \in 1..NSessions : Cardinality(OutstandingOf(h)) <= 1
    /\ \A c1, c2 \in CallIds :
          (/\ c1 < c2
           /\ calls[c1].caller = calls[c2].caller
           /\ calls[c1].caller # CallbackCaller
           /\ calls[c2].enqueued = 1) =>
              /\ calls[c1].pc = "done"
              /\ InFlight(c1) = {}
              /\ calls[c1].enqueued = 1 => oneshots[calls[c1].rx].state # "open"

\* the second call of a handle has its request with the worker after the
\* first call of the same handle got its reply from the worker
C20_Witness ==
    \E c1, c2 \in CallIds :
        /\ c1 < c2
        /\ calls[c1].caller = calls[c2].caller
        /\ calls[c1].caller \in 1..NSessions
        /\ calls[c1].enqueued = 1
        /\ calls[c1].result = fired[c1]
        /\ calls[c2].envelope \in held

====
